---- MODULE Spec2Model ----
(***************************************************************************)
(* A model of the dataset classes of dataset/datahandler.py (UnaryScan,    *)
(* BinaryScan, Loader) and of the helpers _map and init_weights of         *)
(* util/__init__.py.  Each subsystem has its own specification over its    *)
(* own variables; the variables of the other subsystems stay at their      *)
(* idle values.                                                            *)
(***************************************************************************)
EXTENDS Integers, Sequences, FiniteSets, TLC

VARIABLES
    \* --- the file system and the dataset objects (SpecData)
    fsA, fsB,          \* directory data_dirA / data_dirB: whether it exists, and its files
    kind,              \* "none" | "unary" | "binary": which dataset class was constructed
    pc,                \* "new" | "built" | "raised"
    max_dataset_size,  \* the constructor argument
    namesA, namesB,    \* datasetA.scan_file_names, datasetB.scan_file_names
    sizeA, sizeB,      \* BinaryScan.sizeA, BinaryScan.sizeB
    last,              \* the outcome of the last call on the dataset
    \* --- one scan through UnaryScan.__getitem__ (SpecScan)
    proj,              \* the array np.load returned: [shape, data]
    have_rgb,          \* data_stats['have_rgb']
    item,              \* what __getitem__ returned or raised
    \* --- Loader.__init__ (SpecLoader)
    loader,            \* the arguments and the outcome of the last construction
    \* --- _map / BinaryScan.map (SpecMap)
    mapcall,           \* the arguments and the outcome of the last call
    \* --- init_weights (SpecWeights)
    winit              \* the configured init_func and the module it was last applied to

dataVars == <<fsA, fsB, kind, pc, max_dataset_size, namesA, namesB, sizeA, sizeB, last>>

scanVars == <<proj, have_rgb, item>>

loaderVars == <<loader>>
mapVars == <<mapcall>>
weightVars == <<winit>>

notData == <<scanVars, loaderVars, mapVars, weightVars>>
notScan == <<dataVars, loaderVars, mapVars, weightVars>>
notLoader == <<dataVars, scanVars, mapVars, weightVars>>
notMap == <<dataVars, scanVars, loaderVars, weightVars>>
notWeights == <<dataVars, scanVars, loaderVars, mapVars>>

vars == <<dataVars, scanVars, loaderVars, mapVars, weightVars>>

(***************************************************************************)
(* UnaryScan and BinaryScan: construction from directories, indexed access *)
(* and length.                                                             *)
(***************************************************************************)
MaxStats == 3      \* data_stats dictionaries have 1..MaxStats keys
MaxSize  == 3      \* max_dataset_size ranges over -1..MaxSize
MaxIndex == 4      \* indices handed to __getitem__ range over -1..MaxIndex

Min2(a, b) == IF a < b THEN a ELSE b
Max2(a, b) == IF a > b THEN a ELSE b

(***************************************************************************)
(* File names are strings, modelled as sequences of character codes and    *)
(* ordered as Python orders str: character by character, a proper prefix   *)
(* before its extensions ("10" sorts before "2").                          *)
(***************************************************************************)
Names == { <<1>>, <<1, 0>>, <<2>> }
\* a directory that does not exist (os.path.isdir is false)
Missing == [exists |-> FALSE, files |-> {}]
Dirs == { [exists |-> TRUE, files |-> S] : S \in SUBSET Names } \cup {Missing}

RECURSIVE LexLess(_, _)
LexLess(s, t) ==
    IF t = <<>> THEN FALSE
    ELSE IF s = <<>> THEN TRUE
    ELSE IF Head(s) # Head(t) THEN Head(s) < Head(t)
    ELSE LexLess(Tail(s), Tail(t))

\* list.sort(): insertion of each element at its place in the sorted prefix
RECURSIVE Insert(_, _)
Insert(x, sorted) ==
    IF sorted = <<>> THEN <<x>>
    ELSE IF LexLess(x, Head(sorted)) THEN <<x>> \o sorted
    ELSE <<Head(sorted)>> \o Insert(x, Tail(sorted))

RECURSIVE SortFrom(_, _)
SortFrom(seq, acc) ==
    IF seq = <<>> THEN acc ELSE SortFrom(Tail(seq), Insert(Head(seq), acc))

NoSort(seq) == seq
Sort(seq) == SortFrom(seq, <<>>)

\* the orders in which glob.glob may return the entries of a directory
Orders(S) == { f \in [1..Cardinality(S) -> S] : \A i, j \in DOMAIN f : i # j => f[i] # f[j] }

\* seq[:k] for k >= 0
Prefix(seq, k) == SubSeq(seq, 1, Min2(k, Len(seq)))

Truncate(seq, m) == IF m # -1 THEN Prefix(seq, m) ELSE seq

\* UnaryScan.__init__ on a directory listing returned in order `order`
ScanFileNames(order, m) == Truncate(Sort(order), m)

\* self.scan_file_names[index]: Python list indexing, negative indices count from the end
ListIndexOk(seq, index) == -Len(seq) <= index /\ index < Len(seq)
ListGet(seq, index) == IF index >= 0 THEN seq[index + 1] ELSE seq[Len(seq) + index + 1]

NoCall == [op |-> "none"]

DataInit ==
    /\ fsA \in Dirs
    /\ fsB \in Dirs
    /\ kind = "none"
    /\ pc = "new"
    /\ max_dataset_size = -1
    /\ namesA = <<>>
    /\ namesB = <<>>
    /\ sizeA = 0
    /\ sizeB = 0
    /\ last = NoCall

DataIdle ==
    /\ fsA = Missing /\ fsB = Missing /\ kind = "none" /\ pc = "new"
    /\ max_dataset_size = -1 /\ namesA = <<>> /\ namesB = <<>>
    /\ sizeA = 0 /\ sizeB = 0 /\ last = NoCall

\* UnaryScan(data_dir, data_stats, max_dataset_size), on directory A
UnaryScan_init ==
    /\ pc = "new"
    /\ \E m \in -1..MaxSize :
        /\ max_dataset_size' = m
        /\ kind' = "unary"
        /\ IF ~fsA.exists
           THEN /\ pc' = "raised"
                /\ last' = [op |-> "init", err |-> "ValueError"]
                /\ UNCHANGED namesA
           ELSE /\ \E order \in Orders(fsA.files) : namesA' = ScanFileNames(order, m)
                /\ pc' = "built"
                /\ last' = [op |-> "init", err |-> "none"]
    /\ UNCHANGED <<fsA, fsB, namesB, sizeA, sizeB, notData>>

\* BinaryScan(data_dirA, data_statsA, data_dirB, data_statsB, max_dataset_size);
\* statsA and statsB are the numbers of keys of the two data_stats dictionaries
BinaryScan_init ==
    /\ pc = "new"
    /\ \E m \in -1..MaxSize, statsA \in 1..MaxStats, statsB \in 1..MaxStats :
        /\ max_dataset_size' = m
        /\ kind' = "binary"
        /\ IF ~fsA.exists \/ ~fsB.exists
           THEN /\ pc' = "raised"
                /\ last' = [op |-> "init", err |-> "ValueError"]
                /\ UNCHANGED <<namesA, namesB, sizeA, sizeB>>
           ELSE /\ \E oa \in Orders(fsA.files), ob \in Orders(fsB.files) :
                     /\ namesA' = ScanFileNames(oa, m)
                     /\ namesB' = ScanFileNames(ob, m)
                     /\ sizeA' = statsA      \* len(data_statsA)
                     /\ sizeB' = statsB      \* len(data_statsB)
                /\ pc' = "built"
                /\ last' = [op |-> "init", err |-> "none"]
    /\ UNCHANGED <<fsA, fsB, notData>>

\* UnaryScan.__getitem__(index): the file it loads, or the IndexError of the list
UnaryScan_getitem ==
    /\ pc = "built" /\ kind = "unary"
    /\ \E index \in -1..MaxIndex :
        last' = IF ListIndexOk(namesA, index)
                THEN [op |-> "getitem", index |-> index, err |-> "none",
                      file |-> ListGet(namesA, index)]
                ELSE [op |-> "getitem", index |-> index, err |-> "IndexError"]
    /\ UNCHANGED <<fsA, fsB, kind, pc, max_dataset_size, namesA, namesB, sizeA, sizeB, notData>>

\* UnaryScan.__len__()
UnaryScan_len ==
    /\ pc = "built" /\ kind = "unary"
    /\ last' = [op |-> "len", result |-> Len(namesA)]
    /\ UNCHANGED <<fsA, fsB, kind, pc, max_dataset_size, namesA, namesB, sizeA, sizeB, notData>>

\* BinaryScan.__getitem__(index); r is the draw of np.random.randint(0, sizeB)
BinaryScan_getitem ==
    /\ pc = "built" /\ kind = "binary"
    /\ \E index \in -1..MaxIndex, r \in 0..(sizeB - 1) :
        LET index_A == index % sizeA
            index_B == r
            okA == ListIndexOk(namesA, index_A)
            okB == ListIndexOk(namesB, index_B)
        IN last' = [op |-> "getitem", index |-> index,
                    index_A |-> index_A, index_B |-> index_B,
                    err |-> IF okA /\ okB THEN "none" ELSE "IndexError",
                    fileA |-> IF okA THEN ListGet(namesA, index_A) ELSE <<>>,
                    fileB |-> IF okA /\ okB THEN ListGet(namesB, index_B) ELSE <<>>]
    /\ UNCHANGED <<fsA, fsB, kind, pc, max_dataset_size, namesA, namesB, sizeA, sizeB, notData>>

\* BinaryScan.__len__()
BinaryScan_len ==
    /\ pc = "built" /\ kind = "binary"
    /\ last' = [op |-> "len", result |-> Max2(sizeA, sizeB)]
    /\ UNCHANGED <<fsA, fsB, kind, pc, max_dataset_size, namesA, namesB, sizeA, sizeB, notData>>

DataNext ==
    \/ UnaryScan_init
    \/ BinaryScan_init
    \/ UnaryScan_getitem
    \/ UnaryScan_len
    \/ BinaryScan_getitem
    \/ BinaryScan_len

(***************************************************************************)
(* One scan through UnaryScan.__getitem__.                                 *)
(*                                                                         *)
(* Array elements are floats, modelled as exact fractions <<n, d>> in      *)
(* lowest terms with d >= 0; d = 0 holds the IEEE specials: <<0, 0>> is    *)
(* nan, <<1, 0>> is +inf, <<-1, 0>> is -inf.                               *)
(***************************************************************************)
MaxPixels == 3     \* loaded grids have H * W <= MaxPixels pixels

Abs(x) == IF x < 0 THEN -x ELSE x
Sign(x) == IF x < 0 THEN -1 ELSE IF x > 0 THEN 1 ELSE 0

RECURSIVE Gcd(_, _)
Gcd(a, b) == IF b = 0 THEN a ELSE Gcd(b, a % b)

Norm(n, d) ==
    IF d = 0 THEN <<Sign(n), 0>>
    ELSE LET g == Gcd(Abs(n), Abs(d))
         IN <<(Sign(d) * n) \div g, Abs(d) \div g>>

NaN == <<0, 0>>
Half == <<1, 2>>
One == <<1, 1>>
IsNaN(a) == a = NaN
RSub(a, b) == IF IsNaN(a) \/ IsNaN(b) THEN NaN
              ELSE IF a[2] = 0 /\ b[2] = 0 THEN (IF a = b THEN NaN ELSE a)
              ELSE IF a[2] = 0 THEN a
              ELSE IF b[2] = 0 THEN <<-b[1], 0>>
              ELSE Norm(a[1] * b[2] - b[1] * a[2], a[2] * b[2])
RMul(a, b) == IF IsNaN(a) \/ IsNaN(b) THEN NaN ELSE Norm(a[1] * b[1], a[2] * b[2])
RDiv(a, b) == IF IsNaN(a) \/ IsNaN(b) THEN NaN
              ELSE IF a[2] = 0 /\ b[2] = 0 THEN NaN
              ELSE IF b[2] = 0 THEN <<0, 1>>
              ELSE IF b[1] = 0 THEN <<Sign(a[1]), 0>>
              ELSE Norm(a[1] * b[2] * Sign(b[1]), a[2] * Abs(b[1]))
RLess(a, b) == a[1] * b[2] < b[1] * a[2]      \* on finite values

\* an array of shape (C, H, W): its elements by 0-based index <<c, h, w>>
Idx(shape) == (0..shape[1] - 1) \X (0..shape[2] - 1) \X (0..shape[3] - 1)
Array(shape, data) == [shape |-> shape, data |-> data]

\* arr[c0:c1]
Slice(arr, c0, c1) ==
    LET shape == <<c1 - c0, arr.shape[2], arr.shape[3]>>
    IN Array(shape, [i \in Idx(shape) |-> arr.data[<<i[1] + c0, i[2], i[3]>>]])

\* np.repeat(arr, reps, axis=axis), axis 0-based
NpRepeat(arr, reps, axis) ==
    LET shape == [arr.shape EXCEPT ![axis + 1] = @ * reps]
    IN Array(shape, [i \in Idx(shape) |-> arr.data[[i EXCEPT ![axis + 1] = @ \div reps]]])

\* a * m, m of shape (1, H, W) broadcast over the channels of a
MulMask(a, m) ==
    Array(a.shape, [i \in Idx(a.shape) |-> RMul(a.data[i], m.data[<<0, i[2], i[3]>>])])

\* proj[5] == 1.0: the pixels <<h, w>> the mask marks valid
BMask(p) == { q \in (0..p.shape[2] - 1) \X (0..p.shape[3] - 1) :
                 p.data[<<5, q[1], q[2]>>] = One }

ChannelMin(p, c, b) ==
    CHOOSE v \in { p.data[<<c, q[1], q[2]>>] : q \in b } :
        \A q \in b : ~RLess(p.data[<<c, q[1], q[2]>>], v)
ChannelMax(p, c, b) ==
    CHOOSE v \in { p.data[<<c, q[1], q[2]>>] : q \in b } :
        \A q \in b : ~RLess(v, p.data[<<c, q[1], q[2]>>])

\* the two assignments of the loop body, on one valid element x of a channel
RescaleToUnit(x, mn, mx) == RDiv(RSub(x, mn), RSub(mx, mn))
Rescale(x, mn, mx) == RDiv(RSub(RDiv(RSub(x, mn), RSub(mx, mn)), Half), Half)

\* for i in range(5): proj[i][b_mask] = ...   (every channel has a valid pixel)
NormalizeChannels(p) ==
    LET b == BMask(p)
        Min == [c \in 0..4 |-> ChannelMin(p, c, b)]
        Max == [c \in 0..4 |-> ChannelMax(p, c, b)]
    IN Array(p.shape,
             [i \in Idx(p.shape) |->
                 IF i[1] < 5 /\ <<i[2], i[3]>> \in b
                 THEN Rescale(p.data[i], Min[i[1]], Max[i[1]])
                 ELSE p.data[i]])

\* proj[6:9] = proj[6:9] / 127.5 - 1.0
ScaleRgb(p) ==
    Array(p.shape,
          [i \in Idx(p.shape) |->
              IF i[1] >= 6 THEN RSub(RDiv(p.data[i], <<255, 2>>), One) ELSE p.data[i]])

RepeatAlongWidth(p) == NpRepeat(p, 4, 2)
Upsample(p) == NpRepeat(p, 4, 1)

EmptyList == [shape |-> <<0, 0, 0>>, data |-> <<>>]
NoItem == [err |-> "not called"]

\* lines 40-70 of __getitem__ on the loaded array p
GetItemOf(p, rgb) ==
    IF BMask(p) = {}
    THEN [err |-> "ValueError"]      \* .min() of an empty selection
    ELSE LET n == NormalizeChannels(p)
             s == IF rgb THEN ScaleRgb(n) ELSE n
             r == Upsample(s)
             proj_mask == Slice(r, 5, 6)
         IN [err |-> "none",
             proj_xyz |-> MulMask(Slice(r, 0, 3), proj_mask),
             proj_range |-> MulMask(Slice(r, 3, 4), proj_mask),
             proj_remission |-> MulMask(Slice(r, 4, 5), proj_mask),
             proj_mask |-> proj_mask,
             proj_rgb |-> IF rgb THEN MulMask(Slice(r, 6, 9), proj_mask) ELSE EmptyList]

(***************************************************************************)
(* The scans fed to it.  Every pixel draws a value v of Vals; channel 0    *)
(* holds v, channel 1 holds v with -1 and 0 merged (constant where channel *)
(* 0 need not be), channel 2 holds -v, channel 3 holds v * v and channel 4 *)
(* a ramp over the pixels; channel 5 is an arbitrary 0/1 mask; channels    *)
(* 6..8, when present, hold colour levels.                                 *)
(***************************************************************************)
Vals == { -1, 0, 2 }
RgbLevels == <<0, 51, 255>>
Shapes == { hw \in (1..MaxPixels) \X (1..MaxPixels) : hw[1] * hw[2] <= MaxPixels }

ChannelValue(c, v, lin) ==
    IF c = 0 THEN v
    ELSE IF c = 1 THEN (IF v < 1 THEN 0 ELSE 5)
    ELSE IF c = 2 THEN -v
    ELSE IF c = 3 THEN v * v
    ELSE lin + 1

ScanOf(hw, pattern, mask, rgb) ==
    LET shape == <<IF rgb THEN 9 ELSE 6, hw[1], hw[2]>>
    IN Array(shape,
             [i \in Idx(shape) |->
                 LET q == <<i[2], i[3]>>
                     lin == i[2] * hw[2] + i[3]
                 IN IF i[1] < 5 THEN <<ChannelValue(i[1], pattern[q], lin), 1>>
                    ELSE IF i[1] = 5 THEN <<mask[q], 1>>
                    ELSE <<RgbLevels[((lin + i[1]) % 3) + 1], 1>>])

ScanInit ==
    /\ have_rgb \in BOOLEAN
    /\ \E hw \in Shapes :
          \E pattern \in [(0..hw[1] - 1) \X (0..hw[2] - 1) -> Vals],
             mask \in [(0..hw[1] - 1) \X (0..hw[2] - 1) -> {0, 1}] :
                proj = ScanOf(hw, pattern, mask, have_rgb)
    /\ item = NoItem

ScanIdle == proj = EmptyList /\ have_rgb = FALSE /\ item = NoItem

\* UnaryScan.__getitem__ once np.load has returned proj
UnaryScan_getitem_scan ==
    /\ item = NoItem
    /\ item' = GetItemOf(proj, have_rgb)
    /\ UNCHANGED <<proj, have_rgb, notScan>>

ScanNext == UnaryScan_getitem_scan


(***************************************************************************)
(* Loader.__init__: the split of the indices 0..total_samples-1 and the    *)
(* assertions on the three loaders.                                        *)
(***************************************************************************)
MaxSamples == 6    \* total_samples ranges over 0..MaxSamples, and 100
MaxBatch   == 3    \* batch_size ranges over 1..MaxBatch
RatioDen   == 5    \* val_split_ratio ranges over 0/RatioDen .. RatioDen/RatioDen

Samples == 0..MaxSamples \cup {100}

\* int(val_split_ratio * total_samples), the ratio being num / den
ValCount(num, den, n) == (num * n) \div den

\* range(n)[k:] and range(n)[:k] for 0 <= k, as Python clips a slice to the range
RangeFromOffByOne(n, k) == [i \in 1..(n - Min2(k + 1, n)) |-> Min2(k + 1, n) + i - 1]
RangeFrom(n, k) == [i \in 1..(n - Min2(k, n)) |-> Min2(k, n) + i - 1]
RangeUpTo(n, k) == [i \in 1..Min2(k, n) |-> i - 1]

\* len(DataLoader(dataset, batch_size, drop_last)) for a dataset of n samples
DataLoaderLen(n, batch_size, drop_last) ==
    IF drop_last THEN n \div batch_size ELSE (n + batch_size - 1) \div batch_size

AssertNonNegative(length) == length >= 0
\* assert len(loader) > 0
AssertPositive(length) == length > 0

NoLoader == [called |-> FALSE]

\* Loader(data_dict, batch_size, val_split_ratio, ..., is_train, is_training_data)
\* on a dataset of total_samples samples
LoaderOf(total_samples, num, batch_size, is_train, is_training_data) ==
    LET k == ValCount(num, RatioDen, total_samples)
        args == [called |-> TRUE, total_samples |-> total_samples, num |-> num,
                 batch_size |-> batch_size, is_train |-> is_train,
                 is_training_data |-> is_training_data]
        none == [train_indcs |-> <<>>, val_indcs |-> <<>>, test_indcs |-> <<>>,
                 built |-> {}, attrs |-> {}]
    IN IF is_train
       THEN IF ~is_training_data
            THEN args @@ none @@ [outcome |-> "AssertionError"]
            ELSE LET train_indcs == RangeFrom(total_samples, k)
                     val_indcs == RangeUpTo(total_samples, k)
                     split == [train_indcs |-> train_indcs, val_indcs |-> val_indcs,
                               test_indcs |-> <<>>, built |-> {"train", "val"}]
                 IN IF ~AssertPositive(DataLoaderLen(Len(train_indcs), batch_size, TRUE))
                    THEN args @@ split @@
                         [attrs |-> {"trainloader"}, outcome |-> "AssertionError"]
                    ELSE IF ~AssertPositive(DataLoaderLen(Len(val_indcs), batch_size, FALSE))
                    THEN args @@ split @@
                         [attrs |-> {"trainloader", "validloader"},
                          outcome |-> "AssertionError"]
                    ELSE args @@ split @@
                         [attrs |-> {"trainloader", "validloader"}, outcome |-> "ok"]
       ELSE LET test_indcs == IF is_training_data THEN RangeUpTo(total_samples, k)
                              ELSE RangeUpTo(total_samples, total_samples)
                split == [train_indcs |-> <<>>, val_indcs |-> <<>>,
                          test_indcs |-> test_indcs, built |-> {"test"},
                          attrs |-> {"testloader"}]
            IN IF ~AssertPositive(DataLoaderLen(Len(test_indcs), batch_size, FALSE))
               THEN args @@ split @@ [outcome |-> "AssertionError"]
               ELSE args @@ split @@ [outcome |-> "ok"]

LoaderInit == loader = NoLoader

Loader_init ==
    /\ ~loader.called
    /\ \E total_samples \in Samples, num \in 0..RatioDen, batch_size \in 1..MaxBatch,
          is_train \in BOOLEAN, is_training_data \in BOOLEAN :
          loader' = LoaderOf(total_samples, num, batch_size, is_train, is_training_data)
    /\ UNCHANGED notLoader

LoaderNext == Loader_init

(***************************************************************************)
(* _map and BinaryScan.map: the lookup table built from a mapping.         *)
(*                                                                         *)
(* A mapping is the sequence of its (key, value) entries in iteration      *)
(* order, keys distinct; a value is a scalar or a list of two or more      *)
(* numbers.  A table is one-dimensional (cells are numbers) or             *)
(* two-dimensional (cells are rows of `cols` numbers).                     *)
(***************************************************************************)
MaxEntries == 2    \* mappings have 1..MaxEntries entries
MaxModules == 2    \* init_func is applied to at most MaxModules modules
LutMargin == 100   \* the "+100 hack"

Keys == { -101, -1, 0, 1, 3 }
Scalar(x) == [list |-> FALSE, v |-> <<x>>]
List(xs) == [list |-> TRUE, v |-> xs]
Values == { Scalar(5), Scalar(7), List(<<1, 2>>), List(<<1, 2, 3>>) }
Labels == { 0, 2, 3 }

Mappings ==
    UNION { { d \in [1..n -> [key : Keys, data : Values]] :
                \A i, j \in 1..n : i # j => d[i].key # d[j].key } : n \in 1..MaxEntries }

\* the first loop: maxkey over the entries, starting from 0
RECURSIVE MaxKeyFrom(_, _)
MaxKeyFrom(d, maxkey) ==
    IF d = <<>> THEN maxkey
    ELSE MaxKeyFrom(Tail(d), IF Head(d).key > maxkey THEN Head(d).key ELSE maxkey)

\* the first loop: nel as the last iteration leaves it
Nel(d) == LET data == d[Len(d)].data IN IF data.list THEN Len(data.v) ELSE 1

\* np.zeros((maxkey + 100, nel)) or np.zeros((maxkey + 100))
Zeros(rows, nel) ==
    IF nel > 1
    THEN [ndim |-> 2, rows |-> rows, cols |-> nel,
          cells |-> [i \in 0..rows - 1 |-> [j \in 1..nel |-> 0]]]
    ELSE [ndim |-> 1, rows |-> rows, cols |-> 0, cells |-> [i \in 0..rows - 1 |-> 0]]

\* lut[key] = data: "IndexError" when key is outside -rows..rows-1 (a negative key in
\* range counts from the end), "ValueError" when data does not fit a cell
Assign(lut, key, data) ==
    IF key < -lut.rows \/ key >= lut.rows THEN [err |-> "IndexError", lut |-> lut]
    ELSE LET i == IF key < 0 THEN key + lut.rows ELSE key
         IN IF lut.ndim = 1
            THEN IF data.list THEN [err |-> "ValueError", lut |-> lut]
                 ELSE [err |-> "none", lut |-> [lut EXCEPT !.cells[i] = data.v[1]]]
            ELSE IF ~data.list
                 THEN [err |-> "none",
                       lut |-> [lut EXCEPT !.cells[i] = [j \in 1..lut.cols |-> data.v[1]]]]
                 ELSE IF Len(data.v) # lut.cols THEN [err |-> "ValueError", lut |-> lut]
                 ELSE [err |-> "none", lut |-> [lut EXCEPT !.cells[i] = data.v]]

\* the second loop: an IndexError is caught and the key printed, any other error ends
\* the call
RECURSIVE Fill(_, _, _)
Fill(d, lut, printed) ==
    IF d = <<>> THEN [outcome |-> "ok", lut |-> lut, printed |-> printed]
    ELSE LET a == Assign(lut, Head(d).key, Head(d).data)
         IN IF a.err = "IndexError" THEN Fill(Tail(d), lut, Append(printed, Head(d).key))
            ELSE IF a.err = "none" THEN Fill(Tail(d), a.lut, printed)
            ELSE [outcome |-> a.err, lut |-> a.lut, printed |-> printed]

\* the table of _map(label, mapdict) and of BinaryScan.map(label, mapdict)
BuildLut(d) == Fill(d, Zeros(MaxKeyFrom(d, 0) + LutMargin, Nel(d)), <<>>)

\* _map(label, mapdict): the table, the keys printed, and lut[label]
_map(label, d) ==
    LET b == BuildLut(d)
    IN [called |-> TRUE, mapdict |-> d, label |-> label, outcome |-> b.outcome,
        lut |-> b.lut, printed |-> b.printed,
        result |-> IF b.outcome = "ok" THEN <<b.lut.cells[label]>> ELSE <<>>]

NoMap == [called |-> FALSE]
MapInit == mapcall = NoMap

map_call ==
    /\ ~mapcall.called
    /\ \E d \in Mappings, label \in Labels : mapcall' = _map(label, d)
    /\ UNCHANGED notMap

MapNext == map_call

(***************************************************************************)
(* init_weights(cfg) and the init_func it returns.                         *)
(*                                                                         *)
(* A class name is the sequence of the word pieces it is spelled with, and *)
(* classname.find(piece) != -1 asks whether the piece occurs in it.  A     *)
(* module attribute is "absent", "None" or "param"; a parameter's state is *)
(* the name of the last initializer that wrote it, or "untouched".         *)
(***************************************************************************)
InitTypes == { "normal", "xavier", "xavier_uniform", "kaiming", "orthogonal", "none",
               "bogus" }
Nonlinearities == { "relu", "leaky_relu", "bogus" }

Module(classname, weight, bias) == [classname |-> classname, weight |-> weight, bias |-> bias]
Modules ==
    { Module(<<"BatchNorm2d">>, "param", "param"), Module(<<"BatchNorm2d">>, "None", "None"),
      Module(<<"Conv", "2d">>, "param", "param"), Module(<<"Conv", "2d">>, "param", "None"),
      Module(<<"Conv", "Transpose2d">>, "param", "param"),
      Module(<<"Linear">>, "param", "param"), Module(<<"Linear">>, "param", "None"),
      Module(<<"Bi", "linear">>, "param", "param"),
      Module(<<"ReLU">>, "absent", "absent"),
      Module(<<"InstanceNorm2d">>, "None", "None"),
      Module(<<"InstanceNorm2d">>, "param", "param") }

Find(classname, piece) == \E i \in DOMAIN classname : classname[i] = piece
HasParam(m, attr) == IF attr = "weight" THEN m.weight = "param" ELSE m.bias = "param"
HasAttr(m, attr) == IF attr = "weight" THEN m.weight # "absent" ELSE m.bias # "absent"

\* nn.init.kaiming_normal_(m.weight, a, "fan_in", name): the library takes the
\* nonlinearity names it knows and rejects any other before it writes the weight
KaimingNormal(name) ==
    IF name \in { "relu", "leaky_relu" } THEN "kaiming_normal_" ELSE "ValueError"

\* the chain on init_type in the Conv / Linear branch: the initializer applied to
\* the weight, or the error raised
DispatchDefaultsToNone(init_type, nonlinearity) ==
    IF init_type = "normal" THEN "normal_"
    ELSE IF init_type = "xavier" THEN "xavier_normal_"
    ELSE IF init_type = "xavier_uniform" THEN "xavier_uniform_"
    ELSE IF init_type = "kaiming"
         THEN IF nonlinearity = "relu" THEN KaimingNormal("relu")
              ELSE KaimingNormal("learky_relu")
    ELSE IF init_type = "orthogonal" THEN "orthogonal_"
    ELSE "reset_parameters"
Dispatch(init_type, nonlinearity) ==
    IF init_type = "normal" THEN "normal_"
    ELSE IF init_type = "xavier" THEN "xavier_normal_"
    ELSE IF init_type = "xavier_uniform" THEN "xavier_uniform_"
    ELSE IF init_type = "kaiming"
         THEN IF nonlinearity = "relu" THEN KaimingNormal("relu")
              ELSE IF nonlinearity = "leaky_relu" THEN KaimingNormal("learky_relu")
              ELSE "NotImplementedError"
    ELSE IF init_type = "orthogonal" THEN "orthogonal_"
    ELSE IF init_type = "none" THEN "reset_parameters"
    ELSE "NotImplementedError"

Errors == { "NotImplementedError", "ValueError" }

\* init_func(m): the error raised and the state of m's weight and bias afterwards
init_func(init_type, nonlinearity, m) ==
    IF Find(m.classname, "BatchNorm2d")
    THEN [err |-> "none",
          weight |-> IF HasAttr(m, "weight") /\ HasParam(m, "weight")
                     THEN "normal_" ELSE "untouched",
          bias |-> IF HasAttr(m, "bias") /\ HasParam(m, "bias")
                   THEN "constant_" ELSE "untouched"]
    ELSE IF HasAttr(m, "weight") /\ (Find(m.classname, "Conv") \/ Find(m.classname, "Linear"))
    THEN LET d == Dispatch(init_type, nonlinearity)
         IN IF d \in Errors
            THEN [err |-> d, weight |-> "untouched", bias |-> "untouched"]
            ELSE [err |-> "none",
                  weight |-> d,
                  bias |-> IF HasAttr(m, "bias") /\ HasParam(m, "bias")
                           THEN "constant_" ELSE "untouched"]
    ELSE [err |-> "none", weight |-> "untouched", bias |-> "untouched"]

NoWeights == [called |-> FALSE]
WeightsInit == winit = NoWeights

\* init_weights(cfg): reads cfg.init.type, cfg.init.gain, cfg.relu_type and returns
\* init_func
init_weights ==
    /\ ~winit.called
    /\ \E init_type \in InitTypes, nonlinearity \in Nonlinearities :
          winit' = [called |-> TRUE, init_type |-> init_type,
                    nonlinearity |-> nonlinearity, err |-> "none", applied |-> 0]
    /\ UNCHANGED notWeights

\* net.apply(init_func): init_func on the next module, until one raises
apply_init_func ==
    /\ winit.called /\ winit.err = "none" /\ winit.applied < MaxModules
    /\ \E m \in Modules :
          LET r == init_func(winit.init_type, winit.nonlinearity, m)
          IN winit' = [called |-> TRUE, init_type |-> winit.init_type,
                       nonlinearity |-> winit.nonlinearity, err |-> r.err,
                       applied |-> winit.applied + 1, m |-> m,
                       weight |-> r.weight, bias |-> r.bias]
    /\ UNCHANGED notWeights

WeightsNext == init_weights \/ apply_init_func

InitScan == ScanInit /\ DataIdle /\ LoaderInit /\ MapInit /\ WeightsInit
SpecScan == InitScan /\ [][ScanNext]_vars

InitData == DataInit /\ ScanIdle /\ LoaderInit /\ MapInit /\ WeightsInit
SpecData == InitData /\ [][DataNext]_vars

InitLoader == LoaderInit /\ DataIdle /\ ScanIdle /\ MapInit /\ WeightsInit
SpecLoader == InitLoader /\ [][LoaderNext]_vars

InitMap == MapInit /\ DataIdle /\ ScanIdle /\ LoaderInit /\ WeightsInit
SpecMap == InitMap /\ [][MapNext]_vars

InitWeights == WeightsInit /\ DataIdle /\ ScanIdle /\ LoaderInit /\ MapInit
SpecWeights == InitWeights /\ [][WeightsNext]_vars

(***************************************************************************)
(* Properties of the dataset classes.                                      *)
(***************************************************************************)
Range(seq) == { seq[i] : i \in DOMAIN seq }

\* names is the first entries of the lexicographically sorted listing of files:
\* all of it when m = -1, its first m entries otherwise
IsSortedListing(names, files, m) ==
    /\ Len(names) = IF m = -1 THEN Cardinality(files) ELSE Min2(Cardinality(files), m)
    /\ Range(names) \subseteq files
    /\ \A i, j \in DOMAIN names : i < j => LexLess(names[i], names[j])
    /\ \A f \in files \ Range(names) : \A i \in DOMAIN names : LexLess(names[i], f)

\* C1: a BinaryScan's __len__ is max(number of scans in A, number of scans in B) and
\* the domain-A sample of __getitem__(i) is scan number i mod (number of scans in A)
\* of dataset A.
C1_PairedLenAndIndexA ==
    (kind = "binary" /\ pc = "built") =>
        /\ last.op = "len" => last.result = Max2(Len(namesA), Len(namesB))
        /\ (last.op = "getitem" /\ Len(namesA) > 0) =>
              /\ last.index_A = last.index % Len(namesA)
              /\ last.fileA = namesA[(last.index % Len(namesA)) + 1]

\* C9: once a UnaryScan is constructed on an existing directory its file list is the
\* lexicographically sorted listing cut to the first max_dataset_size entries (the
\* whole listing for -1), __len__ reports its length, no access changes it, and a
\* missing directory makes the construction raise and yields no dataset.
C9_FileListSortedTruncatedImmutable ==
    /\ pc = "built" =>
          /\ fsA.exists
          /\ IsSortedListing(namesA, fsA.files, max_dataset_size)
          /\ kind = "binary" =>
                fsB.exists /\ IsSortedListing(namesB, fsB.files, max_dataset_size)
          /\ (kind = "unary" /\ last.op = "len") =>
                last.result = IF max_dataset_size = -1 THEN Cardinality(fsA.files)
                              ELSE Min2(Cardinality(fsA.files), max_dataset_size)
    /\ pc = "raised" => /\ last.err = "ValueError" /\ namesA = <<>> /\ namesB = <<>>
    /\ (kind = "unary" /\ ~fsA.exists) => pc = "raised"
    /\ (kind = "binary" /\ (~fsA.exists \/ ~fsB.exists)) => pc = "raised"

\* a truncated, sorted list ("10" before "2") after a successful access
C9_Witness ==
    /\ kind = "unary" /\ pc = "built"
    /\ fsA.files = { <<1>>, <<1, 0>>, <<2>> }
    /\ max_dataset_size = 2
    /\ namesA = << <<1>>, <<1, 0>> >>
    /\ last.op = "getitem" /\ last.err = "none" /\ last.file = <<1, 0>>

\* C10: for a BinaryScan built from two non-empty directories (its two datasets
\* non-empty) every access
\* __getitem__(i), 0 <= i < __len__(), reads in-range scans of A and of B and raises
\* no index error.
C10_PairedAccessInRange ==
    ( /\ kind = "binary" /\ pc = "built"
      /\ fsA.files # {} /\ fsB.files # {}
      /\ namesA # <<>> /\ namesB # <<>>
      /\ last.op = "getitem"
      /\ 0 <= last.index /\ last.index < Max2(sizeA, sizeB) ) =>
        /\ last.index_A < Len(namesA)
        /\ last.index_B < Len(namesB)
        /\ last.err = "none"

(***************************************************************************)
(* Properties of the processing of one scan.                               *)
(***************************************************************************)
Zero == <<0, 1>>
MinusOne == <<-1, 1>>
InUnit(v) == v[2] > 0 /\ -v[2] <= v[1] /\ v[1] <= v[2]

\* channel c of 0..4 as returned: xyz holds 0..2, range 3, remission 4
OutVal(c, q) ==
    IF c < 3 THEN item.proj_xyz.data[<<c, q[1], q[2]>>]
    ELSE IF c = 3 THEN item.proj_range.data[<<0, q[1], q[2]>>]
    ELSE item.proj_remission.data[<<0, q[1], q[2]>>]
OutPixels == (0..item.proj_mask.shape[2] - 1) \X (0..item.proj_mask.shape[3] - 1)
OutValid == { q \in OutPixels : item.proj_mask.data[<<0, q[1], q[2]>>] = One }
\* the values channel c of the loaded scan takes on its valid pixels
ValidVals(c) == { proj.data[<<c, q[1], q[2]>>] : q \in BMask(proj) }

\* C6 as stated: in the returned xyz, range and remission tensors every valid pixel
\* of channels 0-4 lies in [-1,1], -1 and +1 being the images of the channel's
\* minimum and maximum over the valid pixels, and every invalid pixel is 0.
C6_NormalizedInUnitRange ==
    item.err = "none" =>
        \A c \in 0..4 :
            /\ \A q \in OutValid : InUnit(OutVal(c, q))
            /\ \E q \in OutValid : OutVal(c, q) = MinusOne
            /\ \E q \in OutValid : OutVal(c, q) = One
            /\ \A q \in OutPixels \ OutValid : OutVal(c, q) = Zero

\* C6 amended: the same for every channel that takes at least two distinct values on
\* the valid pixels; a channel constant on the valid pixels is nan on all of them
\* (0/0); invalid pixels are 0 in every channel.
C6_NormalizedUnlessConstant ==
    item.err = "none" =>
        \A c \in 0..4 :
            /\ Cardinality(ValidVals(c)) >= 2 =>
                  /\ \A q \in OutValid : InUnit(OutVal(c, q))
                  /\ \A q \in OutValid :
                        LET x == proj.data[<<c, q[1] \div 4, q[2]>>]
                        IN /\ x = ChannelMin(proj, c, BMask(proj)) => OutVal(c, q) = MinusOne
                           /\ x = ChannelMax(proj, c, BMask(proj)) => OutVal(c, q) = One
                  /\ \E q \in OutValid : OutVal(c, q) = MinusOne
                  /\ \E q \in OutValid : OutVal(c, q) = One
            /\ Cardinality(ValidVals(c)) = 1 => \A q \in OutValid : IsNaN(OutVal(c, q))
            /\ \A q \in OutPixels \ OutValid : OutVal(c, q) = Zero

\* a scan with an interior value, and one whose invalid pixel holds the largest value
C6_Witness ==
    /\ item.err = "none"
    /\ proj.shape = <<6, 1, 3>>
    /\ proj.data[<<0, 0, 0>>] = <<-1, 1>> /\ proj.data[<<0, 0, 1>>] = <<0, 1>>
    /\ proj.data[<<0, 0, 2>>] = <<2, 1>>
    /\ proj.data[<<5, 0, 0>>] = One /\ proj.data[<<5, 0, 1>>] = One
    /\ proj.data[<<5, 0, 2>>] = Zero
    /\ OutVal(0, <<0, 0>>) = MinusOne /\ OutVal(0, <<0, 1>>) = One
    /\ OutVal(0, <<0, 2>>) = Zero
    /\ OutVal(4, <<0, 1>>) = One

\* the tensors __getitem__ returns, and the channel of proj each starts at
Returned ==
    { <<item.proj_xyz, 0>>, <<item.proj_range, 3>>, <<item.proj_remission, 4>>,
      <<item.proj_mask, 5>> } \cup (IF have_rgb THEN { <<item.proj_rgb, 6>> } ELSE {})

\* the processed values of the loaded grid: rescaled, and zeroed where the mask is 0
Processed ==
    LET n == IF have_rgb THEN ScaleRgb(NormalizeChannels(proj)) ELSE NormalizeChannels(proj)
    IN Array(proj.shape,
             [i \in Idx(proj.shape) |->
                 IF i[1] = 5 THEN proj.data[i]
                 ELSE RMul(n.data[i], proj.data[<<5, i[2], i[3]>>])])

\* C7 as stated: every returned tensor has height H and width 4*W and its element
\* (c, h, w) is the processed value at (c, h, w div 4).
C7_UpsampledAlongWidth ==
    item.err = "none" =>
        LET p == Processed
        IN \A t \in Returned :
              /\ t[1].shape[2] = proj.shape[2]
              /\ t[1].shape[3] = 4 * proj.shape[3]
              /\ \A i \in Idx(t[1].shape) :
                    t[1].data[i] = p.data[<<i[1] + t[2], i[2], i[3] \div 4>>]

\* C7 amended: the repeat is along axis 1, the height: every returned tensor has
\* height 4*H and width W and its element (c, h, w) is the processed value at
\* (c, h div 4, w).
C7_UpsampledAlongHeight ==
    item.err = "none" =>
        LET p == Processed
        IN \A t \in Returned :
              /\ t[1].shape[2] = 4 * proj.shape[2]
              /\ t[1].shape[3] = proj.shape[3]
              /\ \A i \in Idx(t[1].shape) :
                    t[1].data[i] = p.data[<<i[1] + t[2], i[2] \div 4, i[3]>>]

\* a 2 x 1 grid with rgb whose rows differ comes back 8 x 1
C7_Witness ==
    /\ item.err = "none"
    /\ have_rgb
    /\ proj.shape = <<9, 2, 1>>
    /\ proj.data[<<5, 0, 0>>] = One /\ proj.data[<<5, 1, 0>>] = One
    /\ item.proj_range.shape = <<1, 8, 1>>
    /\ item.proj_range.data[<<0, 3, 0>>] = MinusOne
    /\ item.proj_range.data[<<0, 4, 0>>] = One
    /\ item.proj_rgb.shape = <<3, 8, 1>>

(***************************************************************************)
(* Properties of Loader.__init__.                                          *)
(***************************************************************************)
\* C2: in train mode the validation split is the index range [0, floor(r*n)) and the
\* training split [floor(r*n), n): disjoint, covering 0..n-1 exactly once, every
\* validation index below every training index.
C2_ContiguousSplit ==
    (loader.called /\ loader.is_train /\ loader.built # {}) =>
        LET n == loader.total_samples
            k == (loader.num * n) \div RatioDen
            val == loader.val_indcs
            train == loader.train_indcs
        IN /\ loader.num * n - RatioDen < RatioDen * k /\ RatioDen * k <= loader.num * n
           /\ Len(val) = k /\ \A i \in 1..k : val[i] = i - 1
           /\ Len(train) = n - k /\ \A i \in 1..(n - k) : train[i] = k + i - 1
           /\ Range(val) \cap Range(train) = {}
           /\ Range(val) \cup Range(train) = 0..(n - 1)
           /\ \A v \in Range(val), t \in Range(train) : v < t

\* ratio 0.2 of 100 samples: 20 for validation, 80 for training
C2_Witness ==
    /\ loader.called /\ loader.is_train /\ loader.outcome = "ok"
    /\ loader.total_samples = 100 /\ 5 * loader.num = RatioDen
    /\ Len(loader.val_indcs) = 20 /\ Len(loader.train_indcs) = 80

\* the splits the construction built
SplitOf(name) ==
    IF name = "train" THEN loader.train_indcs
    ELSE IF name = "val" THEN loader.val_indcs ELSE loader.test_indcs

MapKeys(d) == { d[i].key : i \in DOMAIN d }
SetMax(S) == CHOOSE x \in S : \A y \in S : y <= x
ListLens(d) == { Len(d[i].data.v) : i \in { j \in DOMAIN d : d[j].data.list } }
Reorderings(d) ==
    { [i \in DOMAIN d |-> d[f[i]]] : f \in { g \in [DOMAIN d -> DOMAIN d] :
                                              \A i, j \in DOMAIN d : i # j => g[i] # g[j] } }

\* C4: for every non-empty mapping (here: keys >= 0) of scalars and lists in any
\* order the table is built, has max(key)+100 rows and, when some value is a list, a
\* second dimension equal to the longest list; it does not depend on the order of
\* the entries.
C4_TableShapeFromAllValues ==
    (mapcall.called /\ \A k \in MapKeys(mapcall.mapdict) : k >= 0) =>
        /\ mapcall.outcome = "ok"
        /\ mapcall.lut.rows = SetMax(MapKeys(mapcall.mapdict)) + 100
        /\ ListLens(mapcall.mapdict) # {} =>
              /\ mapcall.lut.ndim = 2
              /\ mapcall.lut.cols = SetMax(ListLens(mapcall.mapdict))
        /\ \A e \in Reorderings(mapcall.mapdict) : BuildLut(e).lut = mapcall.lut

\* C5: when the table is built every key outside [0, max(key)+100) was skipped with
\* a diagnostic, no IndexError leaves the build, and every index that is not an
\* in-range key of the mapping holds 0.
C5_OutOfRangeKeysSkipped ==
    (mapcall.called /\ mapcall.outcome # "ValueError") =>
        LET d == mapcall.mapdict
            rows == mapcall.lut.rows
            zero(i) == IF mapcall.lut.ndim = 1 THEN mapcall.lut.cells[i] = 0
                       ELSE \A j \in 1..mapcall.lut.cols : mapcall.lut.cells[i][j] = 0
        IN /\ mapcall.outcome = "ok"
           /\ \A k \in MapKeys(d) :
                 (k < 0 \/ k >= rows) => k \in Range(mapcall.printed)
           /\ \A i \in 0..rows - 1 : i \notin MapKeys(d) => zero(i)

(***************************************************************************)
(* Properties of init_weights.                                             *)
(***************************************************************************)
KnownInitTypes == { "normal", "xavier", "xavier_uniform", "kaiming", "orthogonal", "none" }
KnownNonlinearities == { "relu", "leaky_relu" }
Applied == winit.called /\ winit.applied > 0

\* C8 as stated: with an unknown scheme or an unknown nonlinearity the error is
\* raised by init_weights or by the first application of the returned function,
\* whatever the module and the other setting, and no parameter is modified.
C8_UnknownNamesRaiseImmediately ==
    ( /\ Applied
      /\ winit.init_type \notin KnownInitTypes \/ winit.nonlinearity \notin KnownNonlinearities ) =>
        /\ winit.applied = 1
        /\ winit.err = "NotImplementedError"
        /\ winit.weight = "untouched" /\ winit.bias = "untouched"

\* the modules the Conv / Linear branch of init_func handles
Dispatched(m) ==
    /\ ~Find(m.classname, "BatchNorm2d")
    /\ m.weight # "absent"
    /\ Find(m.classname, "Conv") \/ Find(m.classname, "Linear")

\* C8 amended: init_weights never raises; the returned function raises
\* NotImplementedError exactly when it is applied to a module that has a weight and
\* whose class name contains Conv or Linear and not BatchNorm2d, and the scheme is
\* unknown or the scheme is kaiming and the nonlinearity unknown; the module's
\* parameters are then unmodified.
C8_UnknownNamesRaiseOnConvLinear ==
    /\ (winit.called /\ winit.applied = 0) => winit.err = "none"
    /\ Applied =>
          /\ winit.err = "NotImplementedError" <=>
                /\ Dispatched(winit.m)
                /\ \/ winit.init_type \notin KnownInitTypes
                   \/ winit.init_type = "kaiming" /\ winit.nonlinearity \notin KnownNonlinearities
          /\ winit.err = "NotImplementedError" =>
                winit.weight = "untouched" /\ winit.bias = "untouched"

\* an unknown scheme passes a BatchNorm2d and raises on the Conv2d after it
C8_Witness ==
    /\ winit.called /\ winit.applied = 2
    /\ winit.init_type = "bogus"
    /\ winit.m = Module(<<"Conv", "2d">>, "param", "param")
    /\ winit.err = "NotImplementedError"
    /\ winit.weight = "untouched" /\ winit.bias = "untouched"

====
